---- MODULE Spec2Model ----
(***************************************************************************)
(* Model of pubmed_scraper.py: the identifier search, the extraction and   *)
(* classification loop of fetch_pubmed_details, the CSV writer and main.   *)
(*                                                                         *)
(* Text is modelled as a sequence of one-character strings, so that        *)
(* lower-casing, substring search, the e-mail pattern and "; ".join are    *)
(* computed character by character as the Python code computes them.       *)
(* Python's None is the one-element sequence None, which no text equals.   *)
(***************************************************************************)
EXTENDS Integers, Sequences, FiniteSets, TLC

----------------------------------------------------------------------------
(* Bounds of the model. *)

\* Largest number of PubmedArticle elements in one fetch response.
MaxArticles == 2

\* Largest number of Author elements in one fetch response (all articles).
MaxAuthors == 3

\* Largest number of Author elements of the record of SpecKeywords.
MaxKeywordAuthors == 2

----------------------------------------------------------------------------
(* Text primitives. *)

\* Python's None.
None == <<"None">>

\* str(None), as an f-string renders it (line 56).
NoneText == <<"N", "o", "n", "e">>

UpperChars == <<"A", "B", "C", "D", "E", "F", "G", "H", "I", "J", "K", "L", "M",
                "N", "O", "P", "Q", "R", "S", "T", "U", "V", "W", "X", "Y", "Z">>

LowerChars == <<"a", "b", "c", "d", "e", "f", "g", "h", "i", "j", "k", "l", "m",
                "n", "o", "p", "q", "r", "s", "t", "u", "v", "w", "x", "y", "z">>

Digits == {"0", "1", "2", "3", "4", "5", "6", "7", "8", "9"}

Range(s) == {s[i] : i \in DOMAIN s}

Letters == Range(UpperChars) \cup Range(LowerChars)

\* [a-zA-Z]
IsLetter(c) == c \in Letters

LocalChars == Letters \cup Digits \cup {".", "_", "%", "+", "-"}

\* [a-zA-Z0-9._%+-]
IsLocalChar(c) == c \in LocalChars

DomainChars == Letters \cup Digits \cup {".", "-"}

\* [a-zA-Z0-9.-]
IsDomainChar(c) == c \in DomainChars

\* Each upper-case letter's lower-case letter.
LowerOf == [c \in Range(UpperChars) |->
               LowerChars[CHOOSE i \in DOMAIN UpperChars : UpperChars[i] = c]]

\* str.lower() of one character.
LowerChar(c) == IF c \in DOMAIN LowerOf THEN LowerOf[c] ELSE c

\* A lower() that leaves the text as it is.
Lower_unchanged(t) == t

\* str.lower() (line 60).
Lower(t) == [i \in DOMAIN t |-> LowerChar(t[i])]

\* Whether k occurs in t at position i.
OccursAt(k, t, i) ==
    /\ i + Len(k) - 1 <= Len(t)
    /\ \A j \in 1..Len(k) : t[i + j - 1] = k[j]

\* The first position from i on at which k occurs in t, 0 when there is none:
\* the left-to-right scan behind Python's "k in t".
RECURSIVE Find(_, _, _)
Find(k, t, i) ==
    IF i + Len(k) - 1 > Len(t) THEN 0
    ELSE IF OccursAt(k, t, i) THEN i
    ELSE Find(k, t, i + 1)

\* keyword in affiliation_text (line 61).
Contains(k, t) == Find(k, t, 1) # 0

\* sep.join(parts) for a list of texts.
RECURSIVE Join(_, _)
Join(parts, sep) ==
    IF parts = <<>> THEN <<>>
    ELSE IF Len(parts) = 1 THEN parts[1]
    ELSE parts[1] \o sep \o Join(Tail(parts), sep)

\* Membership of a character in one of the pattern's character classes.
InClass(cls, c) ==
    CASE cls = "local" -> IsLocalChar(c)
      [] cls = "domain" -> IsDomainChar(c)
      [] cls = "letter" -> IsLetter(c)

\* The last position of the longest run of characters of class cls that
\* starts at i; i - 1 when t[i] is not of the class.
RECURSIVE RunEnd(_, _, _)
RunEnd(cls, t, i) ==
    IF i <= Len(t) /\ InClass(cls, t[i]) THEN RunEnd(cls, t, i + 1) ELSE i - 1

----------------------------------------------------------------------------
(* The e-mail pattern of line 66:                                          *)
(*   [a-zA-Z0-9._%+-]+@[a-zA-Z0-9.-]+\.[a-zA-Z]{2,}                        *)

\* The positions of a "." that can be the pattern's literal dot when the
\* domain part starts at d: at least one domain character before it and at
\* least two letters after it, all inside one run of domain characters.
DotCandidates(t, d) ==
    {j \in (d + 1)..RunEnd("domain", t, d) :
        /\ t[j] = "."
        /\ j + 2 <= Len(t)
        /\ IsLetter(t[j + 1])
        /\ IsLetter(t[j + 2])}

Max(S) == CHOOSE x \in S : \A y \in S : y <= x

Min(S) == CHOOSE x \in S : \A y \in S : x <= y

\* The end of the match that starts at s, 0 when none starts there.  The
\* local part is the whole run of local characters from s, which "@" must
\* follow; the greedy domain part backs off to the last usable dot, and the
\* greedy top-level part takes every letter after it.
MatchEnd(t, s) ==
    LET e == RunEnd("local", t, s)
    IN  IF e < s \/ e + 1 > Len(t) \/ t[e + 1] # "@" THEN 0
        ELSE LET dots == DotCandidates(t, e + 2)
             IN  IF dots = {} THEN 0
                 ELSE RunEnd("letter", t, Max(dots) + 1)

\* re.search(pattern, t): the leftmost match as <<first, last>>, None when
\* the pattern matches nowhere.
EmailSearch(t) ==
    LET starts == {s \in 1..Len(t) : MatchEnd(t, s) # 0}
    IN  IF starts = {} THEN None
        ELSE <<Min(starts), MatchEnd(t, Min(starts))>>

\* email_match.group(0)
Group0(t, m) == SubSeq(t, m[1], m[2])

----------------------------------------------------------------------------
(* Program constants. *)

\* COMPANY_KEYWORDS (line 13), in list order.
COMPANY_KEYWORDS == <<
    <<"p", "h", "a", "r", "m", "a">>,
    <<"b", "i", "o", "t", "e", "c", "h">>,
    <<"l", "a", "b", "o", "r", "a", "t", "o", "r", "i", "e", "s">>,
    <<"i", "n", "c">>,
    <<"l", "t", "d">>,
    <<"c", "o", "r", "p">>,
    <<"g", "m", "b", "h">>,
    <<"s", ".", "a", ".">>,
    <<"c", "o", ".">>,
    <<"l", "l", "c">> >>

\* fieldnames (line 85): the keys of a paper and the columns of the file.
fieldnames == <<"PubmedID", "Title", "Publication Date", "Non-academic Author(s)",
                "Company Affiliation(s)", "Corresponding Author Email">>

\* "Unknown" (lines 46 and 56).
Unknown == <<"U", "n", "k", "n", "o", "w", "n">>

\* "N/A" (line 77).
NotAvailable == <<"N", "/", "A">>

\* "; " (lines 75 and 76).
SemiSep == <<";", " ">>

\* "," (line 33).
Comma == <<",">>

\* " " between the two names of the f-string (line 56).
Space == <<" ">>

----------------------------------------------------------------------------
(* The XML tree: what find() and findall() return on it. *)

\* find() found no such element: Python's None.
NoElem == [found |-> FALSE, text |-> None]

\* find() found an element whose .text is t; t is None for an element with
\* no text before its first child (<Affiliation/>, <ArticleTitle><i>..).
Elem(t) == [found |-> TRUE, text |-> t]

\* Affiliation texts.
AcmeText == <<"A", "c", "m", "e", " ", "P", "h", "a", "r", "m", "a", " ", "I", "n", "c", ",", " ", "c", "o", "n", "t", "a", "c", "t", ":", " ", "j", ".", "d", "o", "e", "@", "a", "c", "m", "e", ".", "c", "o", "m">>
GmbhText == <<"A", "C", "M", "E", " ", "G", "M", "B", "H">>
UnivMailText == <<"U", "n", "i", "v", " ", "X", ",", " ", "s", ".", "p", "o", "e", "@", "u", "n", "i", ".", "e", "d", "u">>

\* The Author elements a response can hold.
AuthorPool == {
    [ForeName |-> Elem(<<"J", "a", "n", "e">>), LastName |-> Elem(<<"D", "o", "e">>), Affiliation |-> Elem(AcmeText)],
    [ForeName |-> NoElem, LastName |-> Elem(<<"S", "m", "i", "t", "h">>), Affiliation |-> NoElem],
    [ForeName |-> Elem(<<"A", "n", "n">>), LastName |-> Elem(<<"L", "e", "e">>), Affiliation |-> Elem(None)],
    [ForeName |-> Elem(<<"S", "a", "m">>), LastName |-> Elem(<<"P", "o", "e">>), Affiliation |-> Elem(UnivMailText)],
    [ForeName |-> Elem(None), LastName |-> Elem(<<"M", "o", "e">>), Affiliation |-> Elem(GmbhText)] }

\* Affiliation texts around each keyword: the keyword in upper case inside
\* a longer word, and the keyword broken by a space.
KeywordTexts == {
    <<"X", "P", "H", "A", "R", "M", "A", "y">>,
    <<"p", "h", "a", "r", "m", " ", "a">>,
    <<"X", "B", "I", "O", "T", "E", "C", "H", "y">>,
    <<"b", "i", "o", "t", "e", "c", " ", "h">>,
    <<"X", "L", "A", "B", "O", "R", "A", "T", "O", "R", "I", "E", "S", "y">>,
    <<"l", "a", "b", "o", "r", "a", "t", "o", "r", "i", "e", " ", "s">>,
    <<"X", "I", "N", "C", "y">>,
    <<"i", "n", " ", "c">>,
    <<"X", "L", "T", "D", "y">>,
    <<"l", "t", " ", "d">>,
    <<"X", "C", "O", "R", "P", "y">>,
    <<"c", "o", "r", " ", "p">>,
    <<"X", "G", "M", "B", "H", "y">>,
    <<"g", "m", "b", " ", "h">>,
    <<"X", "S", ".", "A", ".", "y">>,
    <<"s", ".", "a", " ", ".">>,
    <<"X", "C", "O", ".", "y">>,
    <<"c", "o", " ", ".">>,
    <<"X", "L", "L", "C", "y">>,
    <<"l", "l", " ", "c">> }

\* One author for each of these texts.
KeywordAuthors ==
    {[ForeName |-> Elem(<<"K", "i", "m">>), LastName |-> Elem(<<"R", "o", "e">>), Affiliation |-> Elem(t)] :
        t \in KeywordTexts}

\* The PubmedArticle elements a response can hold, without their authors.
ArticlePool == {
    [PMID |-> Elem(<<"1", "1", "1">>), ArticleTitle |-> Elem(<<"T", "r", "i", "a", "l", " ", "A">>), Year |-> Elem(<<"2", "0", "2", "0">>)],
    [PMID |-> Elem(<<"2", "2", "2">>), ArticleTitle |-> Elem(None), Year |-> NoElem],
    [PMID |-> NoElem, ArticleTitle |-> Elem(<<"T", "r", "i", "a", "l", " ", "C">>), Year |-> Elem(<<"2", "0", "2", "1">>)],
    [PMID |-> Elem(<<"4", "4", "4">>), ArticleTitle |-> NoElem, Year |-> Elem(<<"2", "0", "2", "2">>)] }

\* The identifier lists the search can report.
IdLists == { <<>>, << <<"1", "1", "1">>, <<"2", "2", "2">> >> }

\* The search responses (lines 23 to 27): a failed exchange, a body that
\* is no JSON, and JSON bodies with and without the two keys.
SearchResponses ==
    {[status |-> "error", json |-> "none", idlist |-> <<>>],
     [status |-> "ok", json |-> "invalid", idlist |-> <<>>],
     [status |-> "ok", json |-> "no_esearchresult", idlist |-> <<>>],
     [status |-> "ok", json |-> "no_idlist", idlist |-> <<>>]}
    \cup {[status |-> "ok", json |-> "idlist", idlist |-> l] : l \in IdLists}

\* The fetch responses (lines 36 to 39): a failed exchange, a body that is
\* no XML, and a document.
FetchResponses == {"error", "invalid", "xml"}

\* A file that is at the destination before the run.
OldFile == <<fieldnames,
             << <<"9", "9", "9">>, <<"O", "l", "d">>, <<"1", "9", "9", "9">>, <<"A", "l", " ", "O", "l", "d">>, <<"O", "l", "d", " ", "I", "n", "c">>, NotAvailable >> >>

\* The destination before the run: no file, or an earlier run's file.
Disks == {[exists |-> FALSE, rows |-> <<>>], [exists |-> TRUE, rows |-> OldFile]}

----------------------------------------------------------------------------
(* State. *)

VARIABLES
    pc,                    \* the statement main or its callee is at
    err,                   \* the exception that ended the run, if any
    stdout,                \* the messages printed so far
    pubmed_ids,            \* main: the identifiers the search returned
    fetch_request,         \* the id parameter of each fetch request sent
    doc,                   \* the PubmedArticle elements iterated so far
    papers,                \* the list fetch_pubmed_details builds and returns
    pubmed_id,             \* locals of the article loop
    title,
    pub_date,
    non_academic_authors,
    company_affiliations,
    corresponding_email,
    disk,                  \* the destination path: whether a file is there, its rows
    disk0,                 \* the destination as the run found it
    saveCalls,             \* how many times save_to_csv was called
    row                    \* save_to_csv: the next paper to write

vars == <<pc, err, stdout, pubmed_ids, fetch_request, doc, papers, pubmed_id,
          title, pub_date, non_academic_authors, company_affiliations,
          corresponding_email, disk, disk0, saveCalls, row>>

io == <<disk, saveCalls, row>>

article_locals == <<pubmed_id, title, pub_date, non_academic_authors,
                    company_affiliations, corresponding_email>>

NoError == [type |-> "none", line |-> 0]

\* An uncaught exception of the given type, raised at the given line: it
\* propagates out of main and ends the run.
Raise(type, line) ==
    /\ pc' = "error"
    /\ err' = [type |-> type, line |-> line]

Init ==
    /\ pc = "main"
    /\ err = NoError
    /\ stdout = <<>>
    /\ pubmed_ids = <<>>
    /\ fetch_request = <<>>
    /\ doc = <<>>
    /\ papers = <<>>
    /\ pubmed_id = None
    /\ title = None
    /\ pub_date = None
    /\ non_academic_authors = <<>>
    /\ company_affiliations = <<>>
    /\ corresponding_email = None
    /\ disk0 \in Disks
    /\ disk = disk0
    /\ saveCalls = 0
    /\ row = 0

----------------------------------------------------------------------------
(* fetch_pubmed_ids (lines 15 to 27), called at line 102. *)

\* data.get("esearchresult", {}).get("idlist", [])
IdListOf(resp) == IF resp.json = "idlist" THEN resp.idlist ELSE <<>>

fetch_pubmed_ids ==
    /\ pc = "main"
    /\ \E resp \in SearchResponses :
          IF resp.status = "error"
          THEN Raise("HTTPError", 24) /\ UNCHANGED pubmed_ids
          ELSE IF resp.json = "invalid"
          THEN Raise("JSONDecodeError", 25) /\ UNCHANGED pubmed_ids
          ELSE /\ pubmed_ids' = IdListOf(resp)
               /\ pc' = "main_104"
               /\ UNCHANGED err
    /\ stdout' = Append(stdout, "Fetching PubMed papers for query")
    /\ UNCHANGED <<fetch_request, doc, papers, article_locals, disk0, io>>

\* A main that goes on to the fetch whatever the search found.
main_check_ids_no_return ==
    /\ pc = "main_104"
    /\ stdout' = Append(stdout, "Found papers. Fetching details...")
    /\ pc' = "main_109"
    /\ UNCHANGED <<err, pubmed_ids, fetch_request, doc, papers, pubmed_id, title,
                   pub_date, non_academic_authors, company_affiliations,
                   corresponding_email, disk0, disk, saveCalls, row>>

\* main, lines 104 to 108: stop when the search found nothing.
main_check_ids ==
    /\ pc = "main_104"
    /\ IF pubmed_ids = <<>>
       THEN /\ stdout' = Append(stdout, "No results found.")
            /\ pc' = "done"
       ELSE /\ stdout' = Append(stdout, "Found papers. Fetching details...")
            /\ pc' = "main_109"
    /\ UNCHANGED <<err, pubmed_ids, fetch_request, doc, papers, article_locals,
                   disk0, io>>

----------------------------------------------------------------------------
(* fetch_pubmed_details (lines 29 to 80), called at line 109. *)

\* Lines 31 to 40: one request for all the identifiers, then the parse.
fetch_request_details ==
    /\ pc = "main_109"
    /\ fetch_request' = Append(fetch_request, Join(pubmed_ids, Comma))
    /\ \E resp \in FetchResponses :
          CASE resp = "error" -> Raise("HTTPError", 37) /\ UNCHANGED papers
            [] resp = "invalid" -> Raise("ParseError", 39) /\ UNCHANGED papers
            [] resp = "xml" -> /\ papers' = <<>>
                               /\ pc' = "for_article"
                               /\ UNCHANGED err
    /\ UNCHANGED <<stdout, pubmed_ids, doc, article_locals, disk0, io>>

\* The Author elements iterated so far, over all articles.
RECURSIVE AuthorCount(_)
AuthorCount(d) ==
    IF d = <<>> THEN 0 ELSE Len(d[1].Authors) + AuthorCount(Tail(d))

\* Lines 42 to 51: the next PubmedArticle of root.findall.
next_article ==
    /\ pc = "for_article"
    /\ Len(doc) < MaxArticles
    /\ \E a \in ArticlePool :
          /\ doc' = Append(doc, [PMID |-> a.PMID, ArticleTitle |-> a.ArticleTitle,
                                 Year |-> a.Year, Authors |-> <<>>])
          /\ IF ~a.PMID.found
             THEN Raise("AttributeError", 43) /\ UNCHANGED article_locals
             ELSE IF ~a.ArticleTitle.found
             THEN Raise("AttributeError", 44) /\ UNCHANGED article_locals
             ELSE /\ pubmed_id' = a.PMID.text
                  /\ title' = a.ArticleTitle.text
                  /\ pub_date' = IF a.Year.found THEN a.Year.text ELSE Unknown
                  /\ non_academic_authors' = <<>>
                  /\ company_affiliations' = <<>>
                  /\ corresponding_email' = None
                  /\ pc' = "for_author"
                  /\ UNCHANGED err
    /\ UNCHANGED <<stdout, pubmed_ids, fetch_request, papers, disk0, io>>

\* str(x) inside the f-string of line 56.
Str(x) == IF x = None THEN NoneText ELSE x

\* The display name (lines 54 to 56).
DisplayName(author) ==
    IF author.ForeName.found /\ author.LastName.found
    THEN Str(author.ForeName.text) \o Space \o Str(author.LastName.text)
    ELSE Unknown

\* any(keyword in affiliation_text for keyword in COMPANY_KEYWORDS) (line 61).
AnyKeyword(affiliation_text) ==
    \E k \in DOMAIN COMPANY_KEYWORDS : Contains(COMPANY_KEYWORDS[k], affiliation_text)

\* The text line 66 searches: affiliation.text, "" without an element.
SearchedText(affiliation) == IF affiliation.found THEN affiliation.text ELSE <<>>

\* An update without the "is None" test: the last match wins.
UpdateEmail_last_wins(email, t) ==
    LET email_match == EmailSearch(t)
    IN  IF email_match # None THEN Group0(t, email_match) ELSE email

\* Lines 66 to 68: the record's e-mail after one more author, whose
\* searched text is t.
UpdateEmail(email, t) ==
    LET email_match == EmailSearch(t)
    IN  IF email_match # None /\ email = None THEN Group0(t, email_match) ELSE email

\* Lines 54 to 68: the body of the author loop for one Author element.
author_step(author) ==
    LET name == DisplayName(author)
        affiliation == author.Affiliation
        n == Len(doc)
    IN  /\ doc' = [doc EXCEPT ![n].Authors = Append(@, author)]
        /\ IF affiliation.found /\ affiliation.text = None
           THEN \* None has no lower()
                /\ Raise("AttributeError", 60)
                /\ UNCHANGED <<non_academic_authors, company_affiliations,
                               corresponding_email>>
           ELSE /\ IF affiliation.found /\ AnyKeyword(Lower(affiliation.text))
                   THEN /\ non_academic_authors' = Append(non_academic_authors, name)
                        /\ company_affiliations' =
                               Append(company_affiliations, affiliation.text)
                   ELSE UNCHANGED <<non_academic_authors, company_affiliations>>
                /\ corresponding_email' =
                       UpdateEmail(corresponding_email, SearchedText(affiliation))
                /\ UNCHANGED <<pc, err>>
        /\ UNCHANGED <<stdout, pubmed_ids, fetch_request, papers, pubmed_id, title,
                       pub_date, disk0, io>>

\* Line 53: the next Author of article.findall.
next_author ==
    /\ pc = "for_author"
    /\ AuthorCount(doc) < MaxAuthors
    /\ \E author \in AuthorPool : author_step(author)

\* The list itself, as if it were joined without set().
SetOrders_no_set(xs) == {xs}

\* The orders in which iterating set(xs) can yield its elements: the set
\* keeps one of each, in an order the language does not define.
SetOrders(xs) ==
    LET S == Range(xs)
        n == Cardinality(S)
    IN  {o \in [1..n -> S] : \A i, j \in 1..n : o[i] = o[j] => i = j}

\* The first occurrence of each element of xs, in order.
RECURSIVE Dedup(_)
Dedup(xs) ==
    IF xs = <<>> THEN <<>>
    ELSE LET front == Dedup(SubSeq(xs, 1, Len(xs) - 1))
             last == xs[Len(xs)]
         IN  IF last \in Range(front) THEN front ELSE Append(front, last)

\* A paper whose author names are deduplicated like its affiliations.
Paper_dedup_authors(id, ttl, date, authors, affiliations, email) ==
    [f \in Range(fieldnames) |->
        CASE f = "PubmedID" -> id
          [] f = "Title" -> ttl
          [] f = "Publication Date" -> date
          [] f = "Non-academic Author(s)" -> Join(Dedup(authors), SemiSep)
          [] f = "Company Affiliation(s)" -> Join(affiliations, SemiSep)
          [] f = "Corresponding Author Email" ->
                 IF email = None THEN NotAvailable ELSE email]

\* The dict of lines 71 to 78, with the set iterated in the given order.
Paper(id, ttl, date, authors, affiliations, email) ==
    [f \in Range(fieldnames) |->
        CASE f = "PubmedID" -> id
          [] f = "Title" -> ttl
          [] f = "Publication Date" -> date
          [] f = "Non-academic Author(s)" -> Join(authors, SemiSep)
          [] f = "Company Affiliation(s)" -> Join(affiliations, SemiSep)
          [] f = "Corresponding Author Email" ->
                 IF email = None THEN NotAvailable ELSE email]

\* An end of the author loop that emits a paper for every article.
end_authors_always ==
    /\ pc = "for_author"
    /\ \E order \in SetOrders(company_affiliations) :
          papers' = Append(papers,
                           Paper(pubmed_id, title, pub_date, non_academic_authors,
                                 order, corresponding_email))
    /\ pc' = "for_article"
    /\ UNCHANGED <<err, stdout, pubmed_ids, fetch_request, doc, pubmed_id, title,
                   pub_date, non_academic_authors, company_affiliations,
                   corresponding_email, disk0, disk, saveCalls, row>>

\* Lines 70 to 78: the authors of the article are exhausted.
end_authors ==
    /\ pc = "for_author"
    /\ IF non_academic_authors # <<>>
       THEN \E order \in SetOrders(company_affiliations) :
               papers' = Append(papers,
                                Paper(pubmed_id, title, pub_date, non_academic_authors,
                                      order, corresponding_email))
       ELSE UNCHANGED papers
    /\ pc' = "for_article"
    /\ UNCHANGED <<err, stdout, pubmed_ids, fetch_request, doc, article_locals,
                   disk0, io>>

\* Line 80: the articles are exhausted; the locals of the call are gone.
return_papers ==
    /\ pc = "for_article"
    /\ pc' = "main_111"
    /\ doc' = <<>>
    /\ pubmed_id' = None
    /\ title' = None
    /\ pub_date' = None
    /\ non_academic_authors' = <<>>
    /\ company_affiliations' = <<>>
    /\ corresponding_email' = None
    /\ UNCHANGED <<err, stdout, pubmed_ids, fetch_request, papers, disk0, io>>

----------------------------------------------------------------------------
(* main, lines 111 to 115, and save_to_csv (lines 82 to 90). *)

main_check_papers ==
    /\ pc = "main_111"
    /\ IF papers # <<>>
       THEN /\ saveCalls' = saveCalls + 1
            /\ pc' = "csv_open"
            /\ UNCHANGED stdout
       ELSE /\ stdout' = Append(stdout, "No papers with non-academic authors found.")
            /\ pc' = "done"
            /\ UNCHANGED saveCalls
    /\ UNCHANGED <<err, pubmed_ids, fetch_request, doc, papers, article_locals,
                   disk, disk0, row>>

\* Line 84: open(filename, "w") creates the file or truncates it; when it
\* fails the path is as it was.
csv_open ==
    /\ pc = "csv_open"
    /\ \/ /\ disk' = [exists |-> TRUE, rows |-> <<>>]
          /\ pc' = "csv_header"
          /\ UNCHANGED err
       \/ /\ Raise("OSError", 84)
          /\ UNCHANGED disk
    /\ UNCHANGED <<stdout, pubmed_ids, fetch_request, doc, papers, article_locals,
                   disk0, saveCalls, row>>

\* Line 88: writer.writeheader().
csv_writeheader ==
    /\ pc = "csv_header"
    /\ \/ /\ disk' = [disk EXCEPT !.rows = Append(@, fieldnames)]
          /\ row' = 1
          /\ pc' = "csv_rows"
          /\ UNCHANGED err
       \/ /\ Raise("OSError", 88)
          /\ UNCHANGED <<disk, row>>
    /\ UNCHANGED <<stdout, pubmed_ids, fetch_request, doc, papers, article_locals,
                   disk0, saveCalls>>

\* What the csv writer puts in a cell: None is written as the empty text.
CsvField(v) == IF v = None THEN <<>> ELSE v

\* The cells of a paper in the sorted order of its keys.
DictRow_sorted_keys(paper) ==
    << CsvField(paper["Company Affiliation(s)"]),
       CsvField(paper["Corresponding Author Email"]),
       CsvField(paper["Non-academic Author(s)"]),
       CsvField(paper["PubmedID"]),
       CsvField(paper["Publication Date"]),
       CsvField(paper["Title"]) >>

\* The cells DictWriter writes for a paper: its values in fieldnames order.
DictRow(paper) == [k \in DOMAIN fieldnames |-> CsvField(paper[fieldnames[k]])]

\* Lines 89 and 90: writer.writerow(paper) for the next paper.
csv_writerow ==
    /\ pc = "csv_rows"
    /\ row <= Len(papers)
    /\ \/ /\ disk' = [disk EXCEPT !.rows = Append(@, DictRow(papers[row]))]
          /\ row' = row + 1
          /\ UNCHANGED <<pc, err>>
       \/ /\ Raise("OSError", 90)
          /\ UNCHANGED <<disk, row>>
    /\ UNCHANGED <<stdout, pubmed_ids, fetch_request, doc, papers, article_locals,
                   disk0, saveCalls>>

\* The with block ends, save_to_csv returns and main prints (line 113).
csv_close ==
    /\ pc = "csv_rows"
    /\ row > Len(papers)
    /\ pc' = "done"
    /\ stdout' = Append(stdout, "Results saved")
    /\ UNCHANGED <<err, pubmed_ids, fetch_request, doc, papers, article_locals,
                   disk, disk0, saveCalls, row>>

----------------------------------------------------------------------------

Next ==
    \/ fetch_pubmed_ids
    \/ main_check_ids
    \/ fetch_request_details
    \/ next_article
    \/ next_author
    \/ end_authors
    \/ return_papers
    \/ main_check_papers
    \/ csv_open
    \/ csv_writeheader
    \/ csv_writerow
    \/ csv_close

Spec == Init /\ [][Next]_vars

----------------------------------------------------------------------------
(* The author loop alone, over a record whose authors have the affiliation *)
(* texts built around each keyword.                                        *)

\* The run at line 53 for the first article of a response.
InitKeywords ==
    /\ pc = "for_author"
    /\ err = NoError
    /\ stdout = <<"Fetching PubMed papers for query", "Found papers. Fetching details...">>
    /\ pubmed_ids \in IdLists \ {<<>>}
    /\ fetch_request = <<Join(pubmed_ids, Comma)>>
    /\ \E a \in {x \in ArticlePool : x.PMID.found /\ x.ArticleTitle.found} :
          /\ doc = <<[PMID |-> a.PMID, ArticleTitle |-> a.ArticleTitle,
                      Year |-> a.Year, Authors |-> <<>>]>>
          /\ pubmed_id = a.PMID.text
          /\ title = a.ArticleTitle.text
          /\ pub_date = IF a.Year.found THEN a.Year.text ELSE Unknown
    /\ papers = <<>>
    /\ non_academic_authors = <<>>
    /\ company_affiliations = <<>>
    /\ corresponding_email = None
    /\ disk0 \in Disks
    /\ disk = disk0
    /\ saveCalls = 0
    /\ row = 0

\* Line 53, for a record of at most MaxKeywordAuthors authors.
next_keyword_author ==
    /\ pc = "for_author"
    /\ AuthorCount(doc) < MaxKeywordAuthors
    /\ \E author \in AuthorPool \cup KeywordAuthors : author_step(author)

NextKeywords == next_keyword_author

SpecKeywords == InitKeywords /\ [][NextKeywords]_vars

----------------------------------------------------------------------------
(* What the claims speak of, stated on the document rather than on the     *)
(* variables of the loop.                                                  *)

\* Whether keyword k occurs in t at position i when case is ignored.
MatchesAt(k, t, i) ==
    /\ i + Len(k) - 1 <= Len(t)
    /\ \A j \in 1..Len(k) : LowerChar(t[i + j - 1]) = k[j]

\* An author with no affiliation string: no element, or one without text.
AffiliationAbsent(author) ==
    ~author.Affiliation.found \/ author.Affiliation.text = None

\* The affiliation string of an author, empty when absent.
AffiliationText(author) ==
    IF AffiliationAbsent(author) THEN <<>> ELSE author.Affiliation.text

\* The authors with an affiliation text in which some keyword occurs.
NonAcademicAuthors ==
    {author \in AuthorPool \cup KeywordAuthors :
        \E k \in Range(COMPANY_KEYWORDS) :
           \E i \in 1..Len(AffiliationText(author)) :
              MatchesAt(k, AffiliationText(author), i)}

IsNonAcademic(author) == author \in NonAcademicAuthors

\* The first e-mail match in each author's affiliation string, None when
\* it has none.
EmailOf ==
    [author \in AuthorPool \cup KeywordAuthors |->
        LET t == AffiliationText(author)
        IN  IF EmailSearch(t) = None THEN None ELSE Group0(t, EmailSearch(t))]

\* The non-academic authors among the given ones, in their order.
RECURSIVE NonAcademicOf(_)
NonAcademicOf(authors) ==
    IF authors = <<>> THEN <<>>
    ELSE LET rest == NonAcademicOf(Tail(authors))
         IN  IF IsNonAcademic(authors[1]) THEN <<authors[1]>> \o rest ELSE rest

\* The texts of a list, each followed by the separator but the last.
RECURSIVE Separated(_, _)
Separated(texts, sep) ==
    IF Len(texts) = 0 THEN <<>>
    ELSE LET n == Len(texts)
             front == Separated(SubSeq(texts, 1, n - 1), sep)
         IN  IF n = 1 THEN texts[1] ELSE front \o sep \o texts[n]

\* The first e-mail match over the authors' affiliation strings, None
\* when no author has one.
FirstEmail(authors) ==
    LET with == {i \in DOMAIN authors : EmailOf[authors[i]] # None}
    IN  IF with = {} THEN None ELSE EmailOf[authors[Min(with)]]

\* Whether the run is inside the article loop, or was ended inside it.
InLoop == doc # <<>> /\ pc \in {"for_article", "for_author", "error"}

\* The article the loop is at.
Current == doc[Len(doc)]

\* The articles whose authors the loop has exhausted.
Completed ==
    IF pc = "for_article" THEN doc ELSE SubSeq(doc, 1, Len(doc) - 1)

\* Articles with at least one non-academic author, in document order.
RECURSIVE Qualifying(_)
Qualifying(d) ==
    IF d = <<>> THEN <<>>
    ELSE LET rest == Qualifying(Tail(d))
         IN  IF NonAcademicOf(d[1].Authors) # <<>> THEN <<d[1]>> \o rest ELSE rest

\* A record that lacks its identifier or its title.
LacksRequired(a) ==
    \/ ~a.PMID.found
    \/ a.PMID.text = None
    \/ ~a.ArticleTitle.found
    \/ a.ArticleTitle.text = None

JaneDoe == <<"J", "a", "n", "e", " ", "D", "o", "e">>
UnivEmail == <<"s", ".", "p", "o", "e", "@", "u", "n", "i", ".", "e", "d", "u">>

----------------------------------------------------------------------------
(* The claims. *)

\* C1: each step of the author loop appends the author's display name to
\* the non-academic list if and only if the author's affiliation text,
\* lower-cased, contains one of the ten keywords as a substring; an author
\* whose affiliation contains none leaves the list as it was.
C1_ClassifiedIffKeyword ==
    [][(pc = "for_author" /\ pc' = "for_author" /\ doc' # doc) =>
          LET author == doc'[Len(doc')].Authors[Len(doc'[Len(doc')].Authors)]
          IN  IF IsNonAcademic(author)
              THEN /\ non_academic_authors' =
                          Append(non_academic_authors, DisplayName(author))
                   /\ company_affiliations' =
                          Append(company_affiliations, author.Affiliation.text)
              ELSE /\ non_academic_authors' = non_academic_authors
                   /\ company_affiliations' = company_affiliations]_vars

\* After an author whose affiliation breaks "llc" with a space was left
\* out, an author whose affiliation holds "LLC" inside a longer word is
\* classified.
C1_Witness ==
    /\ pc = "for_author"
    /\ Len(Current.Authors) = 2
    /\ Current.Authors[1].Affiliation = Elem(<<"l", "l", " ", "c">>)
    /\ Current.Authors[2].Affiliation = Elem(<<"X", "L", "L", "C", "y">>)
    /\ company_affiliations = <<<<"X", "L", "L", "C", "y">>>>

\* C2: the papers built so far are, in order, one per completed record
\* that has a non-academic author, each with that record's identifier;
\* a completed record without one has no entry.
C2_OnePaperPerQualifyingRecord ==
    InLoop =>
        LET q == Qualifying(Completed)
        IN  /\ Len(papers) = Len(q)
            /\ \A k \in DOMAIN papers : papers[k]["PubmedID"] = q[k].PMID.text

\* Two records are completed, the first without a non-academic author and
\* the second with one: the only paper is the second record's.
C2_Witness ==
    /\ pc = "for_article"
    /\ Len(doc) = 2
    /\ doc[1].Authors # <<>>
    /\ NonAcademicOf(doc[1].Authors) = <<>>
    /\ NonAcademicOf(doc[2].Authors) # <<>>
    /\ Len(papers) = 1
    /\ papers[1]["PubmedID"] = doc[2].PMID.text

\* The display names of the authors, in order.
NamesOf(authors) == [i \in DOMAIN authors |-> DisplayName(authors[i])]

\* C3: the author field of every paper is the display names of exactly the
\* non-academic authors of its record, in document order, joined with
\* "; ", repeated names included.
C3_AuthorFieldExactInOrder ==
    InLoop =>
        LET q == Qualifying(Completed)
        IN  \A k \in DOMAIN papers :
               k <= Len(q) =>
                  papers[k]["Non-academic Author(s)"] =
                      Separated(NamesOf(NonAcademicOf(q[k].Authors)), SemiSep)

\* A record with the same non-academic name twice around an academic
\* author: the field holds the name twice and not the academic one.
C3_Witness ==
    /\ pc = "for_article"
    /\ Len(doc) = 1
    /\ Len(doc[1].Authors) = 3
    /\ IsNonAcademic(doc[1].Authors[1])
    /\ ~IsNonAcademic(doc[1].Authors[2])
    /\ doc[1].Authors[3] = doc[1].Authors[1]
    /\ Len(papers) = 1
    /\ papers[1]["Non-academic Author(s)"] = JaneDoe \o SemiSep \o JaneDoe

\* C4: inside the author loop the record's e-mail is the first pattern
\* match over the authors scanned so far, academic or not, and None when
\* there is none, whatever the records before held; every paper carries
\* the first match of its own record, or "N/A".
C4_FirstEmailWins ==
    /\ pc = "for_author" => corresponding_email = FirstEmail(Current.Authors)
    /\ InLoop =>
          LET q == Qualifying(Completed)
          IN  \A k \in DOMAIN papers :
                 k <= Len(q) =>
                    papers[k]["Corresponding Author Email"] =
                        IF FirstEmail(q[k].Authors) = None THEN NotAvailable
                        ELSE FirstEmail(q[k].Authors)

\* The first record's e-mail is its academic first author's, not the later
\* company author's, and the second record, with no address, has "N/A".
C4_Witness ==
    /\ pc = "for_article"
    /\ Len(doc) = 2
    /\ Len(doc[1].Authors) = 2
    /\ doc[1].Authors[1].Affiliation = Elem(UnivMailText)
    /\ doc[1].Authors[2].Affiliation = Elem(AcmeText)
    /\ Len(papers) = 2
    /\ papers[1]["Corresponding Author Email"] = UnivEmail
    /\ papers[2]["Corresponding Author Email"] = NotAvailable

\* C5: once the search has returned an empty list the run is at the test
\* of line 104 or has ended normally, no fetch request was sent,
\* save_to_csv was not called and the destination is as it was.
C5_EmptySearchStops ==
    (pc \notin {"main", "error"} /\ pubmed_ids = <<>>) =>
        /\ pc \in {"main_104", "done"}
        /\ fetch_request = <<>>
        /\ saveCalls = 0
        /\ disk = disk0

\* The run ended after an empty search, an earlier file still in place.
C5_Witness ==
    /\ pc = "done"
    /\ pubmed_ids = <<>>
    /\ disk0.exists
    /\ disk.rows = OldFile

\* C6: a save_to_csv that failed leaves the destination as it found it:
\* no truncated file, no header without rows, no strict prefix of the
\* rows, and an earlier file not destroyed.
C6_FailedWriteLeavesNoPartialFile ==
    (pc = "error" /\ err.type = "OSError") => disk = disk0

\* C7: a record that lacks its identifier or its title ends the batch with
\* an error at that record, and no paper has a null identifier or title.
C7_MissingRequiredFieldAborts ==
    /\ \A i \in DOMAIN doc :
          LacksRequired(doc[i]) => (pc = "error" /\ i = Len(doc))
    /\ \A k \in DOMAIN papers :
          papers[k]["PubmedID"] # None /\ papers[k]["Title"] # None

\* A cell of the file for a value of a paper.
Cell(v) == IF v = None THEN <<>> ELSE v

\* The row of the file for a paper, column by column.
RowOf(p) ==
    << Cell(p["PubmedID"]), Cell(p["Title"]), Cell(p["Publication Date"]),
       Cell(p["Non-academic Author(s)"]), Cell(p["Company Affiliation(s)"]),
       Cell(p["Corresponding Author Email"]) >>

\* The header row of the file.
HeaderRow ==
    << "PubmedID", "Title", "Publication Date", "Non-academic Author(s)",
       "Company Affiliation(s)", "Corresponding Author Email" >>

\* C8: while save_to_csv writes rows the file is the header row followed
\* by the rows of the papers written so far, in input order; when it has
\* returned the file is the header row followed by one row per paper.
C8_HeaderThenRowsInOrder ==
    /\ pc = "csv_rows" =>
          /\ Len(disk.rows) = row
          /\ disk.rows[1] = HeaderRow
          /\ \A i \in 1..(row - 1) : disk.rows[i + 1] = RowOf(papers[i])
    /\ (pc = "done" /\ saveCalls > 0) =>
          /\ disk.exists
          /\ Len(disk.rows) = Len(papers) + 1
          /\ disk.rows[1] = HeaderRow
          /\ \A i \in DOMAIN papers : disk.rows[i + 1] = RowOf(papers[i])

\* Two different papers were written over an earlier file.
C8_Witness ==
    /\ pc = "done"
    /\ disk0.exists
    /\ Len(papers) = 2
    /\ papers[1] # papers[2]
    /\ Len(disk.rows) = 3

\* The affiliation texts of the non-academic authors among the given ones.
CompanyTexts(authors) ==
    {authors[i].Affiliation.text : i \in {j \in DOMAIN authors : IsNonAcademic(authors[j])}}

\* The ways to list the elements of S once each.
Listings(S) ==
    {l \in [1..Cardinality(S) -> S] : \A x \in S : \E i \in DOMAIN l : l[i] = x}

\* C9: the affiliation field of every paper is the distinct affiliation
\* texts of its record's non-academic authors, each once, in some order,
\* joined with "; ".
C9_AffiliationsOnceEach ==
    InLoop =>
        LET q == Qualifying(Completed)
        IN  \A k \in DOMAIN papers :
               k <= Len(q) =>
                  \E l \in Listings(CompanyTexts(q[k].Authors)) :
                     papers[k]["Company Affiliation(s)"] = Separated(l, SemiSep)

\* Two authors share one affiliation text and a third has another: the
\* field holds the two texts once each, the later one first.
C9_Witness ==
    /\ pc = "for_article"
    /\ Len(doc) = 1
    /\ Len(doc[1].Authors) = 3
    /\ doc[1].Authors[1].Affiliation = Elem(AcmeText)
    /\ doc[1].Authors[2].Affiliation = Elem(AcmeText)
    /\ doc[1].Authors[3].Affiliation = Elem(GmbhText)
    /\ Len(papers) = 1
    /\ papers[1]["Company Affiliation(s)"] = GmbhText \o SemiSep \o AcmeText

\* C10: an author whose affiliation string is absent never ends the run
\* with an error, and is not classified non-academic.
C10_AbsentAffiliationIsEmpty ==
    InLoop =>
        \A j \in DOMAIN Current.Authors :
           AffiliationAbsent(Current.Authors[j]) =>
              /\ ~IsNonAcademic(Current.Authors[j])
              /\ ~(pc = "error" /\ err.line = 60 /\ j = Len(Current.Authors))

====
